---- MODULE Spec2Model ----
(***************************************************************************)
(* The study timer / break / exercise-reminder cycle of Timer.vue, with    *)
(* the browser's interval registry (setInterval / clearInterval) made      *)
(* explicit, so that an interval that is armed but no longer referenced    *)
(* by a handle can be told from one that was cleared; the todo list of     *)
(* TodoList.vue, with its requests to the backend in flight; and the       *)
(* settings dialog and the archive of App.vue, with localStorage.          *)
(***************************************************************************)
EXTENDS Integers, FiniteSets, Sequences, TLC

(* ------------------------------ bounds --------------------------------- *)

\* minutes the user types into the customTime input: 1..MaxCustomTime
MaxCustomTime == 1

\* minutes the user saves in the settings dialog, for the break duration and for
\* the exercise interval: 1..MaxSettingMinutes
MaxSettingMinutes == 1

\* a countdown is followed tick by tick only from values up to this many seconds
MaxCountdown == 60

\* intervals registered in the browser at the same time
MaxIntervals == 3

\* largest remainder (seconds) of a stopped countdown from which a restart is
\* recorded in the history variable run
MaxTrackedRemainder == 2

\* where minutes are counted (SpecReminder): the exercise intervals the user
\* saves are 1..MaxReminderMinutes, and a period is followed for that many minutes
MaxReminderMinutes == 2

\* where minutes are counted (SpecReminder): a countdown is followed tick by
\* tick only within this many seconds of a whole minute
MaxTicksFollowed == 2

\* todos in the local list
MaxTodos == 2

\* ids the backend hands out: 0..MaxTodoId
MaxTodoId == 1

\* characters of a text typed into the new-todo input
MaxTextLen == 2

\* POST and DELETE requests of the todo list in flight at the same time
MaxPending == 1

\* days the archive is followed over: 1..MaxDays
MaxDays == 2

\* items in the archive
MaxArchived == 2

(* ------------------------- program constants --------------------------- *)

SecondsPerMinute == 60

MsPerSecond == 1000

DefaultCustomTime == 50

DefaultBreakDuration == 5

DefaultExerciseInterval == 50

\* the value of an empty handle (timer.value = null)
NULL == 0

\* defaultSettings.breakMessage and .exerciseMessage; a text is a sequence of
\* characters, and each default, which neither starts nor ends with a space, is
\* kept as one unit
DefaultBreakMessage == <<"Time's up! Take a break.">>

DefaultExerciseMessage == <<"Time for a quick exercise break!">>

(* ------------------------------- state --------------------------------- *)

VARIABLES
  timeLeft,               \* ref: remaining study seconds
  isRunning,              \* ref: the study timer runs
  customTime,             \* ref: minutes in the customTime input
  timer,                  \* ref: handle of the study interval, or NULL
  showExerciseModal,      \* ref
  showBreakConfirmation,  \* ref: the break offer is shown
  showBreakTimer,         \* ref: the break view is shown
  breakTimeLeft,          \* ref: remaining break seconds
  breakTimer,             \* ref: handle of the break interval, or NULL
  exerciseInterval,       \* let: handle of the exercise reminder, or NULL
  intervals,              \* the browser: the intervals that are armed
  settings,               \* props.settings, owned by the parent
  phase,                  \* lifecycle of the component
  toast,                  \* the notification the last step emitted
  lastOp,                 \* history: the session operation of the last step, "other"
                          \*   for a step that is none (typing, the reminder, settings)
  run,                    \* history: the start -> tick* sequence under way
  brk,                    \* history: the acceptBreak -> tick* sequence under way
  todos,                  \* TodoList ref: the local list
  newTodo,                \* TodoList ref: the text in the new-todo input
  pending,                \* TodoList: the POST and DELETE requests in flight, each
                          \*   with the handler that awaits its response
  listPhase,              \* lifecycle of the TodoList component: "setup", "fetching"
                          \*   while the GET of fetchTodos is in flight, "mounted"
  editText,               \* TodoList ref: the text in the edit field
  draggedTodo,            \* TodoList ref: the position in todos of the todo being
                          \*   dragged, or NULL
  focus,                  \* the browser: the position in todos of the todo whose
                          \*   edit field has the focus, or NULL
  arg,                    \* history: the position in todos of the todo the last step's
                          \*   handler was invoked on, or NULL
  archivedTodos,          \* App ref: day |-> the items archived on that day
  today,                  \* the browser: the day new Date() falls on
  emitted,                \* history: the payload of the event the last step emitted,
                          \*   or <<>> when it emitted none
  messages,               \* App ref settings: its breakMessage and exerciseMessage
  tempSettings,           \* App ref: the form of the settings dialog
  showSettingsModal,      \* App ref: the settings dialog is open
  storage,                \* localStorage: the item 'settings'
  storedArchive,          \* localStorage: the item 'archivedTodos'
  appPhase                \* lifecycle of App: "setup", "mounted"

progVars ==
  <<timeLeft, isRunning, customTime, timer, showExerciseModal,
    showBreakConfirmation, showBreakTimer, breakTimeLeft, breakTimer,
    exerciseInterval, intervals>>

\* the state of the TodoList component
listVars == <<todos, newTodo, pending, listPhase>>

\* the state of the TodoList component that only its item handlers change
itemVars == <<editText, draggedTodo, focus>>

\* the state of App and of the browser around it
appVars ==
  <<archivedTodos, today, messages, tempSettings, showSettingsModal, storage,
    storedArchive, appPhase>>

vars ==
  <<timeLeft, isRunning, customTime, timer, showExerciseModal,
    showBreakConfirmation, showBreakTimer, breakTimeLeft, breakTimer,
    exerciseInterval, intervals, settings, phase, toast, lastOp, run, brk,
    todos, newTodo, pending, listPhase, editText, draggedTodo, focus, arg,
    archivedTodos, today, emitted, messages, tempSettings, showSettingsModal,
    storage, storedArchive, appPhase>>

Max(a, b) == IF a >= b THEN a ELSE b

\* run.st: "ticking" while every tick so far left the state Running, "ended" once
\* a tick left it, "stopped" / "stoppedLate" once stopTimer was invoked in the one
\* or the other, "none" when no such sequence is under way.
NoRun == [T |-> -1, n |-> 0, fromReset |-> FALSE, st |-> "none"]

NoBrk == [B |-> -1, n |-> 0]

CustomTimes == 1..MaxCustomTime

\* the remaining times T from which a start -> tick* sequence is recorded in run:
\* a full duration, or a remainder of up to MaxTrackedRemainder seconds
TrackedStarts ==
  (0..MaxTrackedRemainder) \cup {c * SecondsPerMinute : c \in CustomTimes}

\* the settings objects the parent hands down after a save (both durations pass
\* validateSettings: > 0)
SavedSettings ==
  {[breakDuration |-> k, exerciseInterval |-> k] : k \in 1..MaxSettingMinutes}

(* ------------------ the component's state as a record ------------------ *)

\* The reactive state of one component instance and the browser's registry.
Comp ==
  [timeLeft |-> timeLeft, isRunning |-> isRunning, customTime |-> customTime,
   timer |-> timer, showExerciseModal |-> showExerciseModal,
   showBreakConfirmation |-> showBreakConfirmation,
   showBreakTimer |-> showBreakTimer, breakTimeLeft |-> breakTimeLeft,
   breakTimer |-> breakTimer, exerciseInterval |-> exerciseInterval,
   intervals |-> intervals, toast |-> "none"]

\* The step leaves the Timer component in state s.
TimerBecomes(s) ==
  /\ timeLeft' = s.timeLeft
  /\ isRunning' = s.isRunning
  /\ customTime' = s.customTime
  /\ timer' = s.timer
  /\ showExerciseModal' = s.showExerciseModal
  /\ showBreakConfirmation' = s.showBreakConfirmation
  /\ showBreakTimer' = s.showBreakTimer
  /\ breakTimeLeft' = s.breakTimeLeft
  /\ breakTimer' = s.breakTimer
  /\ exerciseInterval' = s.exerciseInterval
  /\ intervals' = s.intervals
  /\ toast' = s.toast

\* The step leaves the Timer component in state s (and the todo list and App
\* alone).
Becomes(s) ==
  /\ UNCHANGED <<listVars, itemVars, arg, appVars>>
  /\ emitted' = <<>>
  /\ TimerBecomes(s)

(* ------------------------- the browser's timers ------------------------ *)

Ids(s) == {i.id : i \in s.intervals}

\* setInterval never hands out an id that is still armed or still held.
NewId(s) ==
  CHOOSE n \in 1..(MaxIntervals + 4) :
    /\ n \notin Ids(s) \cup {s.timer, s.breakTimer, s.exerciseInterval}
    /\ \A m \in 1..(n - 1) :
         m \in Ids(s) \cup {s.timer, s.breakTimer, s.exerciseInterval}

\* An armed interval: its id, the callback it runs (kind), its period in ms, and
\* the whole minutes elapsed since it was armed or last fired (counted for the
\* exercise reminder, and only where minutes pass: MinutePasses).
setInterval(s, kind, period) ==
  s.intervals \cup
    {[id |-> NewId(s), kind |-> kind, period |-> period, elapsed |-> 0]}

clearInterval(s, h) == {i \in s.intervals : i.id # h}

Armed(kind) == {i \in intervals : i.kind = kind}

(* ----------------------------- Timer.vue -------------------------------- *)

\* stopTimer that forgets to reset the flag
stopTimer_keepsFlag(s) ==
  IF s.timer # NULL
    THEN [s EXCEPT !.intervals = clearInterval(s, s.timer), !.timer = NULL]
    ELSE s

\* stopTimer that forgets clearInterval
stopTimer_keepsInterval(s) ==
  [s EXCEPT !.timer = NULL, !.isRunning = FALSE]

stopTimer(s) ==
  LET s1 == IF s.timer # NULL
              THEN [s EXCEPT !.intervals = clearInterval(s, s.timer),
                             !.timer = NULL]
              ELSE s
  IN  [s1 EXCEPT !.isRunning = FALSE]

\* the callback of the study interval (one tick)
\* the callback of the study interval, where the number 1 is kept as one
studyTickBy(s, one) ==
  IF s.timeLeft > 0
    THEN [s EXCEPT !.timeLeft = @ - one]
    ELSE [stopTimer(s) EXCEPT !.showBreakConfirmation = TRUE]

studyTick(s) == studyTickBy(s, 1)

\* startTimer without its isRunning guard
startTimer_unguarded(s) ==
  [s EXCEPT !.isRunning = TRUE,
            !.timer = NewId(s),
            !.intervals = setInterval(s, "study", MsPerSecond)]

startTimer(s) ==
  IF ~s.isRunning
    THEN [s EXCEPT !.isRunning = TRUE,
                   !.timer = NewId(s),
                   !.intervals = setInterval(s, "study", MsPerSecond)]
    ELSE s

\* resetTimer that also restarts the period of the exercise reminder
resetTimer_restartsReminder(s) ==
  [stopTimer(s) EXCEPT
     !.timeLeft = s.customTime * SecondsPerMinute,
     !.intervals = {IF i.kind = "exercise" THEN [i EXCEPT !.elapsed = 0] ELSE i :
                      i \in stopTimer(s).intervals}]

resetTimer(s) ==
  [stopTimer(s) EXCEPT !.timeLeft = s.customTime * SecondsPerMinute]

\* a customTime input that also applies the value, as a watcher would
inputCustomTime_applies(s, v) ==
  [s EXCEPT !.customTime = v, !.timeLeft = v * SecondsPerMinute]

\* v-model="customTime": the user types the number v into the input
inputCustomTime(s, v) == [s EXCEPT !.customTime = v]

setCustomTime(s) == [s EXCEPT !.timeLeft = s.customTime * SecondsPerMinute]

\* startBreak that leaves the break offer on screen
startBreak_keepsOffer(s, p) ==
  LET s1 == [s EXCEPT !.showBreakTimer = TRUE,
                      !.breakTimeLeft = p.breakDuration * SecondsPerMinute]
  IN  [s1 EXCEPT !.breakTimer = NewId(s1),
                 !.intervals = setInterval(s1, "break", MsPerSecond)]

\* p is props.settings
startBreak(s, p) ==
  LET s1 == [s EXCEPT !.showBreakConfirmation = FALSE,
                      !.showBreakTimer = TRUE,
                      !.breakTimeLeft = p.breakDuration * SecondsPerMinute]
  IN  [s1 EXCEPT !.breakTimer = NewId(s1),
                 !.intervals = setInterval(s1, "break", MsPerSecond)]

skipBreak(s) ==
  [resetTimer([s EXCEPT !.showBreakConfirmation = FALSE])
     EXCEPT !.toast = "info: Break skipped. Timer reset!"]

endBreak(s) ==
  LET s1 == IF s.breakTimer # NULL
              THEN [s EXCEPT !.intervals = clearInterval(s, s.breakTimer),
                             !.breakTimer = NULL]
              ELSE s
      s2 == [s1 EXCEPT !.showBreakTimer = FALSE]
  IN  [resetTimer(s2)
         EXCEPT !.toast = "success: Break is over! Let's continue studying!"]

\* the callback of the break interval (one tick)
\* the callback of the break interval, where the number 1 is kept as one
breakTickBy(s, one) ==
  IF s.breakTimeLeft > 0
    THEN [s EXCEPT !.breakTimeLeft = @ - one]
    ELSE endBreak(s)

breakTick(s) == breakTickBy(s, 1)

\* setupExerciseReminder that forgets to clear the interval it replaces
setupExerciseReminder_keepsOld(s, p) ==
  LET h == NewId(s)
  IN  [s EXCEPT !.exerciseInterval = h,
                !.intervals = s.intervals \cup
                  {[id |-> h, kind |-> "exercise",
                    period |-> p.exerciseInterval * SecondsPerMinute * MsPerSecond,
                    elapsed |-> 0]}]

\* p is props.settings
setupExerciseReminder(s, p) ==
  LET s1 == IF s.exerciseInterval # NULL
              THEN [s EXCEPT !.intervals = clearInterval(s, s.exerciseInterval)]
              ELSE s
      h  == NewId([s1 EXCEPT !.exerciseInterval = NULL])
  IN  [s1 EXCEPT !.exerciseInterval = h,
                 !.intervals = s1.intervals \cup
                   {[id |-> h, kind |-> "exercise",
                     period |-> p.exerciseInterval * SecondsPerMinute * MsPerSecond,
                     elapsed |-> 0]}]

\* a watcher that runs setupExerciseReminder whenever the parent replaces settings
watchExerciseInterval_always(s, old, p) == setupExerciseReminder(s, p)

\* watch(() => props.settings.exerciseInterval, setupExerciseReminder): old is
\* the settings object before the parent replaced it by p
watchExerciseInterval(s, old, p) ==
  IF p.exerciseInterval # old.exerciseInterval
    THEN setupExerciseReminder(s, p)
    ELSE s

\* the callback of the exercise interval
exerciseTick(s) ==
  [s EXCEPT !.showExerciseModal = TRUE, !.toast = "info: exerciseMessage"]

\* the interval i fires when the minute now passing is over
Due(i) == (i.elapsed + 1) * SecondsPerMinute * MsPerSecond >= i.period

\* One minute passes for the armed exercise intervals: those that are due fire
\* (the callback is the same for each) and count from zero again.
minutePasses(s) ==
  LET due  == {i \in s.intervals : i.kind = "exercise" /\ Due(i)}
      aged == {IF i.kind = "exercise"
                 THEN [i EXCEPT !.elapsed = IF Due(i) THEN 0 ELSE @ + 1]
                 ELSE i : i \in s.intervals}
      s1   == [s EXCEPT !.intervals = aged]
  IN  IF due # {} THEN exerciseTick(s1) ELSE s1

\* an onUnmounted hook that forgets the break interval
onUnmountedHook_forgetsBreak(s) ==
  LET a == IF s.exerciseInterval # NULL
             THEN clearInterval(s, s.exerciseInterval) ELSE s.intervals
      b == IF s.timer # NULL THEN {i \in a : i.id # s.timer} ELSE a
  IN  [s EXCEPT !.intervals = b]

onUnmountedHook(s) ==
  LET a == IF s.exerciseInterval # NULL
             THEN clearInterval(s, s.exerciseInterval) ELSE s.intervals
      b == IF s.timer # NULL THEN {i \in a : i.id # s.timer} ELSE a
      c == IF s.breakTimer # NULL THEN {i \in b : i.id # s.breakTimer} ELSE b
  IN  [s EXCEPT !.intervals = c]

(* ------------------------- the session states -------------------------- *)

Idle == ~isRunning /\ ~showBreakConfirmation /\ ~showBreakTimer

Running == isRunning /\ ~showBreakConfirmation /\ ~showBreakTimer

BreakPending == ~isRunning /\ showBreakConfirmation /\ ~showBreakTimer

OnBreak == ~isRunning /\ ~showBreakConfirmation /\ showBreakTimer

(* ------------------------------ lifecycle ------------------------------ *)

\* The state after <script setup> has run, before the component is mounted.
\* The state after construction, where the number 1 is kept as one.
InitAt(one) ==
  /\ timeLeft = DefaultCustomTime * one * SecondsPerMinute
  /\ isRunning = FALSE
  /\ customTime = DefaultCustomTime * one
  /\ timer = NULL
  /\ showExerciseModal = FALSE
  /\ showBreakConfirmation = FALSE
  /\ showBreakTimer = FALSE
  /\ breakTimeLeft = 0
  /\ breakTimer = NULL
  /\ exerciseInterval = NULL
  /\ intervals = {}
  /\ settings = [breakDuration |-> DefaultBreakDuration * one,
                 exerciseInterval |-> DefaultExerciseInterval * one]
  /\ phase = "setup"
  /\ toast = "none"
  /\ lastOp = "setup"
  /\ run = NoRun
  /\ brk = NoBrk
  /\ todos = <<>>
  /\ newTodo = <<>>
  /\ pending = <<>>
  /\ listPhase = "setup"
  /\ editText = <<>>
  /\ draggedTodo = NULL
  /\ focus = NULL
  /\ arg = NULL
  /\ archivedTodos = <<>>
  /\ today = 1
  /\ emitted = <<>>
  /\ messages = [breakMessage |-> DefaultBreakMessage,
                 exerciseMessage |-> DefaultExerciseMessage]
  /\ tempSettings = [breakDuration |-> DefaultBreakDuration * one,
                     exerciseInterval |-> DefaultExerciseInterval * one,
                     breakMessage |-> DefaultBreakMessage,
                     exerciseMessage |-> DefaultExerciseMessage]
  /\ showSettingsModal = FALSE
  /\ storage = [kind |-> "null"]
  /\ storedArchive = [kind |-> "null"]
  /\ appPhase = "setup"

Init == InitAt(1)

onMounted ==
  /\ phase = "setup"
  /\ Becomes(setupExerciseReminder(Comp, settings))
  /\ phase' = "mounted"
  /\ lastOp' = "onMounted"
  /\ UNCHANGED <<settings, run, brk>>

onUnmounted ==
  /\ phase = "mounted"
  /\ Becomes(onUnmountedHook(Comp))
  /\ phase' = "unmounted"
  /\ lastOp' = "onUnmounted"
  /\ run' = NoRun
  /\ brk' = NoBrk
  /\ UNCHANGED settings

\* The parent replaces settings (saveSettings, or the load at startup); the
\* watcher on settings.exerciseInterval re-arms the reminder when it changed.
settingsChange ==
  /\ phase = "mounted"
  /\ \E p \in SavedSettings :
       /\ p # settings
       /\ settings' = p
       /\ Becomes(watchExerciseInterval(Comp, settings, p))
  /\ lastOp' = "other"
  /\ UNCHANGED <<phase, run, brk>>

(* ------------------------- handlers, as invoked ------------------------ *)

Do_startTimer ==
  /\ phase = "mounted"
  /\ isRunning \/ Cardinality(intervals) < MaxIntervals
  /\ Becomes(startTimer(Comp))
  /\ lastOp' = "startTimer"
  /\ run' = IF isRunning THEN run
            ELSE IF Idle /\ timeLeft \in TrackedStarts
              THEN [T |-> timeLeft, n |-> 0,
                    fromReset |-> (lastOp = "resetTimer"), st |-> "ticking"]
              ELSE NoRun
  /\ brk' = IF isRunning THEN brk ELSE NoBrk
  /\ UNCHANGED <<settings, phase>>

Do_stopTimer ==
  /\ phase = "mounted"
  /\ Becomes(stopTimer(Comp))
  /\ lastOp' = "stopTimer"
  /\ run' = CASE run.st = "ticking" -> [run EXCEPT !.st = "stopped"]
              [] run.st = "ended" -> [run EXCEPT !.st = "stoppedLate"]
              [] OTHER -> NoRun
  /\ brk' = NoBrk
  /\ UNCHANGED <<settings, phase>>

Do_resetTimer ==
  /\ phase = "mounted"
  /\ Becomes(resetTimer(Comp))
  /\ lastOp' = "resetTimer"
  /\ run' = NoRun
  /\ brk' = NoBrk
  /\ UNCHANGED <<settings, phase>>

Do_setCustomTime ==
  /\ phase = "mounted"
  /\ Becomes(setCustomTime(Comp))
  /\ lastOp' = "setCustomTime"
  /\ run' = NoRun
  /\ brk' = NoBrk
  /\ UNCHANGED <<settings, phase>>

\* v-model="customTime": the user types a number into the input
Do_inputCustomTime ==
  /\ phase = "mounted"
  /\ \E v \in CustomTimes :
       /\ v # customTime
       /\ Becomes(inputCustomTime(Comp, v))
  /\ lastOp' = "other"
  /\ UNCHANGED <<settings, phase, run, brk>>

Do_startBreak ==
  /\ phase = "mounted"
  /\ Cardinality(intervals) < MaxIntervals
  /\ Becomes(startBreak(Comp, settings))
  /\ lastOp' = "startBreak"
  /\ run' = NoRun
  /\ brk' = IF BreakPending
              THEN [B |-> settings.breakDuration, n |-> 0]
              ELSE NoBrk
  /\ UNCHANGED <<settings, phase>>

Do_skipBreak ==
  /\ phase = "mounted"
  /\ Becomes(skipBreak(Comp))
  /\ lastOp' = "skipBreak"
  /\ run' = NoRun
  /\ brk' = NoBrk
  /\ UNCHANGED <<settings, phase>>

Do_endBreak ==
  /\ phase = "mounted"
  /\ Becomes(endBreak(Comp))
  /\ lastOp' = "endBreak"
  /\ run' = NoRun
  /\ brk' = NoBrk
  /\ UNCHANGED <<settings, phase>>

\* @click="showExerciseModal = false"
Do_dismissExercise ==
  /\ phase = "mounted"
  /\ Becomes([Comp EXCEPT !.showExerciseModal = FALSE])
  /\ lastOp' = "other"
  /\ UNCHANGED <<settings, phase, run, brk>>

(* ----------------------- the interval callbacks ------------------------ *)

\* One armed study interval fires.
StudyTick ==
  /\ \E i \in Armed("study") : TRUE
  /\ timeLeft <= MaxCountdown
  /\ Becomes(studyTick(Comp))
  /\ lastOp' = "studyTick"
  /\ run' = IF run.st = "ticking"
              THEN [run EXCEPT !.n = @ + 1,
                               !.st = IF Running' THEN "ticking" ELSE "ended"]
              ELSE NoRun
  /\ brk' = NoBrk
  /\ UNCHANGED <<settings, phase>>

\* One armed break interval fires.
BreakTick ==
  /\ \E i \in Armed("break") : TRUE
  /\ breakTimeLeft <= MaxCountdown
  /\ Becomes(breakTick(Comp))
  /\ lastOp' = "breakTick"
  /\ run' = NoRun
  /\ brk' = IF brk # NoBrk /\ showBreakTimer
              THEN [brk EXCEPT !.n = @ + 1]
              ELSE NoBrk
  /\ UNCHANGED <<settings, phase>>

\* One armed exercise interval fires.
ExerciseTick ==
  /\ \E i \in Armed("exercise") : TRUE
  /\ Becomes(exerciseTick(Comp))
  /\ lastOp' = "other"
  /\ UNCHANGED <<settings, phase, run, brk>>

(* --------------- the user interface: what the template offers ---------- *)

\* <div v-if="!showBreakTimer">: the main view is rendered
MainView == ~showBreakTimer

Click_startTimer == MainView /\ ~isRunning /\ Do_startTimer

Click_stopTimer == MainView /\ isRunning /\ Do_stopTimer

Click_resetTimer == MainView /\ Do_resetTimer

Click_setCustomTime == MainView /\ Do_setCustomTime

Type_customTime == MainView /\ Do_inputCustomTime

Click_startBreak == MainView /\ showBreakConfirmation /\ Do_startBreak

Click_skipBreak == MainView /\ showBreakConfirmation /\ Do_skipBreak

Click_dismissExercise == MainView /\ showExerciseModal /\ Do_dismissExercise

Click_endBreak == ~MainView /\ Do_endBreak

Next ==
  \/ onMounted
  \/ onUnmounted
  \/ settingsChange
  \/ Click_startTimer
  \/ Click_stopTimer
  \/ Click_resetTimer
  \/ Click_setCustomTime
  \/ Type_customTime
  \/ Click_startBreak
  \/ Click_skipBreak
  \/ Click_dismissExercise
  \/ Click_endBreak
  \/ StudyTick
  \/ BreakTick
  \/ ExerciseTick

\* The component driven through its rendered template.
Spec == Init /\ [][Next]_vars

NextStart ==
  \/ Next
  \/ Do_startTimer

\* The rendered template, plus startTimer invoked in whatever state the
\* component is in (the Start button is disabled while isRunning).
SpecStart == Init /\ [][NextStart]_vars

NextAPI ==
  \/ onMounted
  \/ onUnmounted
  \/ settingsChange
  \/ Do_startTimer
  \/ Do_stopTimer
  \/ Do_resetTimer
  \/ Do_setCustomTime
  \/ Do_inputCustomTime
  \/ Do_startBreak
  \/ Do_skipBreak
  \/ Do_endBreak
  \/ Do_dismissExercise
  \/ StudyTick
  \/ BreakTick
  \/ ExerciseTick

\* The handlers invoked directly, in whatever state the component is in.
SpecAPI == Init /\ [][NextAPI]_vars

(* ------------------- the reminder, with minutes counted ---------------- *)

\* In Spec, SpecStart and SpecAPI the reminder fires at any moment (ExerciseTick)
\* and no minute is counted; here it fires when its period is over.

\* the settings objects saved where minutes are counted
ReminderSettings ==
  [breakDuration : 1..MaxSettingMinutes, exerciseInterval : 1..MaxReminderMinutes]

\* the numbers typed into the customTime input where minutes are counted; the
\* input accepts 0 (min="1" only constrains the spinner and form validation)
ReminderCustomTimes == 0..MaxCustomTime

NearMinute(t) ==
  LET r == t % SecondsPerMinute
  IN  r <= MaxTicksFollowed \/ r >= SecondsPerMinute - MaxTicksFollowed

Reminder_settingsChange ==
  /\ phase = "mounted"
  /\ \E p \in ReminderSettings :
       /\ p # settings
       /\ settings' = p
       /\ Becomes(watchExerciseInterval(Comp, settings, p))
  /\ lastOp' = "settingsChange"
  /\ UNCHANGED <<phase, run, brk>>

Reminder_Type_customTime ==
  /\ phase = "mounted"
  /\ MainView
  /\ \E v \in ReminderCustomTimes :
       /\ v # customTime
       /\ Becomes(inputCustomTime(Comp, v))
  /\ lastOp' = "other"
  /\ UNCHANGED <<settings, phase, run, brk>>

Reminder_StudyTick == NearMinute(timeLeft) /\ StudyTick

Reminder_BreakTick == NearMinute(breakTimeLeft) /\ BreakTick

\* One minute passes: every armed exercise interval gets a minute older, and
\* fires when its period is over.
MinutePasses ==
  /\ Armed("exercise") # {}
  /\ \A i \in Armed("exercise") : i.elapsed < MaxReminderMinutes
  /\ Becomes(minutePasses(Comp))
  /\ lastOp' = "minutePasses"
  /\ UNCHANGED <<settings, phase, run, brk>>

NextReminder ==
  \/ onMounted
  \/ onUnmounted
  \/ Reminder_settingsChange
  \/ Click_startTimer
  \/ Click_stopTimer
  \/ Click_resetTimer
  \/ Click_setCustomTime
  \/ Reminder_Type_customTime
  \/ Click_startBreak
  \/ Click_skipBreak
  \/ Click_dismissExercise
  \/ Click_endBreak
  \/ Reminder_StudyTick
  \/ Reminder_BreakTick
  \/ MinutePasses

\* The component driven through its rendered template, with the minutes of the
\* exercise reminder counted.
SpecReminder == Init /\ [][NextReminder]_vars

(* ------------- Timer.vue, with minutes that are not whole -------------- *)

\* The number inputs (the customTime input, type="number" min="1", and the
\* v-model.number inputs of the settings dialog) hand over whatever number the
\* user types, 0.01 as well as 1. Here the component's numbers are followed to two
\* decimals, in fixed point: the integer n stands for n / Resolution.
Resolution == 100

\* the minutes the user types: 0.01 and 1
FractionMinutes == {1, Resolution}

\* the settings the parent hands down after a save (both pass validateSettings:
\* > 0)
FractionSettings ==
  {[breakDuration |-> b, exerciseInterval |-> Resolution] : b \in FractionMinutes}

Fraction_settingsChange ==
  /\ phase = "mounted"
  /\ \E p \in FractionSettings :
       /\ p # settings
       /\ settings' = p
       /\ Becomes(watchExerciseInterval(Comp, settings, p))
  /\ lastOp' = "other"
  /\ UNCHANGED <<phase, run, brk>>

Fraction_Type_customTime ==
  /\ phase = "mounted"
  /\ MainView
  /\ \E v \in FractionMinutes :
       /\ v # customTime
       /\ Becomes(inputCustomTime(Comp, v))
  /\ lastOp' = "other"
  /\ UNCHANGED <<settings, phase, run, brk>>

\* One armed study interval fires.
Fraction_StudyTick ==
  /\ \E i \in Armed("study") : TRUE
  /\ timeLeft <= MaxCountdown * Resolution
  /\ Becomes(studyTickBy(Comp, Resolution))
  /\ lastOp' = "studyTick"
  /\ UNCHANGED <<settings, phase, run, brk>>

\* One armed break interval fires.
Fraction_BreakTick ==
  /\ \E i \in Armed("break") : TRUE
  /\ breakTimeLeft <= MaxCountdown * Resolution
  /\ Becomes(breakTickBy(Comp, Resolution))
  /\ lastOp' = "breakTick"
  /\ UNCHANGED <<settings, phase, run, brk>>

NextFraction ==
  \/ onMounted
  \/ onUnmounted
  \/ Fraction_settingsChange
  \/ Click_startTimer
  \/ Click_stopTimer
  \/ Click_resetTimer
  \/ Click_setCustomTime
  \/ Click_startBreak
  \/ Click_skipBreak
  \/ Click_endBreak
  \/ Fraction_Type_customTime
  \/ Fraction_StudyTick
  \/ Fraction_BreakTick

\* The component driven through its rendered template, with durations that need
\* not be whole minutes.
SpecFraction == InitAt(Resolution) /\ [][NextFraction]_vars

(* ---------------------------- TodoList.vue ----------------------------- *)

\* A text is a sequence of characters; "" is <<>>.
Chars == {" ", "a"}

Texts == UNION {[1..n -> Chars] : n \in 0..MaxTextLen}

TodoIds == 0..MaxTodoId

RECURSIVE trimStart(_)
trimStart(t) ==
  IF t # <<>> /\ Head(t) = " " THEN trimStart(Tail(t)) ELSE t

RECURSIVE trimEnd(_)
trimEnd(t) ==
  IF t # <<>> /\ t[Len(t)] = " " THEN trimEnd(SubSeq(t, 1, Len(t) - 1)) ELSE t

\* String.prototype.trim
trim(t) == trimEnd(trimStart(t))

RemoveAt(q, i) == SubSeq(q, 1, i - 1) \o SubSeq(q, i + 1, Len(q))

\* The reactive state of one TodoList instance and its requests in flight.
List ==
  [todos |-> todos, newTodo |-> newTodo, pending |-> pending,
   editText |-> editText, draggedTodo |-> draggedTodo, focus |-> focus,
   emitted |-> <<>>]

\* The step leaves the TodoList in state s (and the Timer alone).
ListBecomes(s) ==
  /\ todos' = s.todos
  /\ newTodo' = s.newTodo
  /\ pending' = s.pending
  /\ editText' = s.editText
  /\ draggedTodo' = s.draggedTodo
  /\ focus' = s.focus
  /\ emitted' = s.emitted
  /\ arg' = NULL
  /\ UNCHANGED <<progVars, settings, phase, toast, run, brk, appVars>>

\* The step leaves the TodoList in state s, its handler having been invoked on
\* the k-th todo.
ItemBecomes(s, k) ==
  /\ todos' = s.todos
  /\ newTodo' = s.newTodo
  /\ pending' = s.pending
  /\ editText' = s.editText
  /\ draggedTodo' = s.draggedTodo
  /\ focus' = s.focus
  /\ emitted' = s.emitted
  /\ arg' = k
  /\ UNCHANGED <<progVars, settings, phase, toast, run, brk, appVars>>

\* a request in flight: POST carries a body, DELETE names the id in its URL
Request(method, taskDescription, id) ==
  [method |-> method, taskDescription |-> taskDescription, id |-> id]

\* fetchTodos from its await on: data is the list in the response, of which
\* the map keeps every todo with a completedAt of its own (a todo of the backend
\* has no editing flag)
fetchTodos_resolved(s, data) ==
  [s EXCEPT !.todos =
     [i \in DOMAIN data |->
        [id |-> data[i].id, taskDescription |-> data[i].taskDescription,
         completed |-> data[i].completed,
         completedAt |-> IF data[i].completed THEN today ELSE NULL,
         editing |-> FALSE]]]

\* a handler whose fetch rejected: the catch block logs and returns
rejected(s, i) == [s EXCEPT !.pending = RemoveAt(@, i)]

\* addTodo that sends and stores the text as typed
addTodo_untrimmed(s) ==
  IF trim(s.newTodo) # <<>>
    THEN [s EXCEPT !.pending = Append(@, Request("POST", s.newTodo, NULL))]
    ELSE s

\* addTodo up to its await
addTodo(s) ==
  IF trim(s.newTodo) # <<>>
    THEN [s EXCEPT !.pending = Append(@, Request("POST", trim(s.newTodo), NULL))]
    ELSE s

\* the body of the response to the POST request r, under the id the backend
\* chose (the fetch stub: Math.floor(Math.random() * 10000))
postResponse(r, id) ==
  [id |-> id, taskDescription |-> r.taskDescription, completed |-> FALSE,
   completedAt |-> NULL, editing |-> FALSE]

\* addTodo from its await on: savedTodo is the body of the response
addTodo_resolved(s, i, savedTodo) ==
  [s EXCEPT !.todos = Append(@, savedTodo),
            !.newTodo = <<>>,
            !.pending = RemoveAt(@, i)]

\* removeTodo(todo) up to its await, todo being the k-th of the list
removeTodo(s, k) ==
  IF s.todos[k].id = 0
    THEN s
    ELSE [s EXCEPT !.pending = Append(@, Request("DELETE", <<>>, s.todos[k].id))]

\* removeTodo from its await on
removeTodo_resolved(s, i) ==
  [s EXCEPT !.todos = SelectSeq(@, LAMBDA t : t.id # s.pending[i].id),
            !.pending = RemoveAt(@, i)]

Posts(q) == SelectSeq(q, LAMBDA r : r.method = "POST")

\* a PUT in flight: its URL names the id, its body is JSON.stringify(todo), and
\* awaits is the handler that goes on when the response arrives
PutRequest(todo, awaits) ==
  [method |-> "PUT", taskDescription |-> todo.taskDescription, id |-> todo.id,
   completed |-> todo.completed, awaits |-> awaits]

\* computed: the todos of the list q that are open, and those that are completed
openTodos(q) == SelectSeq(q, LAMBDA t : ~t.completed)

completedTodos(q) == SelectSeq(q, LAMBDA t : t.completed)

\* the template after a change of the list: an edit field that is no longer
\* rendered (v-if="!todo.editing") cannot hold the focus
rendered(s) ==
  IF s.focus # NULL /\ (s.focus \notin DOMAIN s.todos \/ ~s.todos[s.focus].editing)
    THEN [s EXCEPT !.focus = NULL]
    ELSE s

\* startEditing(todo), todo being the k-th of the list
startEditing(s, k) ==
  [s EXCEPT !.todos[k].editing = TRUE, !.editText = s.todos[k].taskDescription]

\* saveEdit that stores the text as entered
saveEdit_untrimmed(s, k) ==
  IF trim(s.editText) # <<>>
    THEN LET saved == [s.todos[k] EXCEPT !.taskDescription = s.editText,
                                         !.editing = FALSE]
         IN  [s EXCEPT !.todos[k] = saved,
                       !.pending = IF saved.id # 0
                                     THEN Append(@, PutRequest(saved, "saveEdit"))
                                     ELSE @]
    ELSE s

\* saveEdit(todo) up to its await; nothing follows the await
saveEdit(s, k) ==
  IF trim(s.editText) # <<>>
    THEN LET saved == [s.todos[k] EXCEPT !.taskDescription = trim(s.editText),
                                         !.editing = FALSE]
         IN  [s EXCEPT !.todos[k] = saved,
                       !.pending = IF saved.id # 0
                                     THEN Append(@, PutRequest(saved, "saveEdit"))
                                     ELSE @]
    ELSE s

\* cancelEdit(todo)
cancelEdit(s, k) == [s EXCEPT !.todos[k].editing = FALSE]

\* the focus leaves the edit field that has it: @blur="saveEdit(todo)"
blur(s) ==
  IF s.focus # NULL
    THEN rendered([saveEdit(s, s.focus) EXCEPT !.focus = NULL])
    ELSE s

\* toggleTodo that marks the todo completed whatever it was
toggleTodo_completes(s, k) ==
  LET toggled == [s.todos[k] EXCEPT !.completed = TRUE, !.completedAt = today]
  IN  [s EXCEPT !.todos[k] = toggled,
                !.pending = IF toggled.id # 0
                              THEN Append(@, PutRequest(toggled, "toggleTodo"))
                              ELSE @]

\* toggleTodo that leaves completedAt as it is
toggleTodo_keepsDate(s, k) ==
  LET toggled == [s.todos[k] EXCEPT !.completed = ~s.todos[k].completed]
  IN  [s EXCEPT !.todos[k] = toggled,
                !.pending = IF toggled.id # 0
                              THEN Append(@, PutRequest(toggled, "toggleTodo"))
                              ELSE @]

\* toggleTodo(todo) up to its await, todo being the k-th of the list; nothing
\* follows the await. completedAt is the day of new Date(), or NULL (undefined).
toggleTodo(s, k) ==
  LET flipped == ~s.todos[k].completed
      toggled == [s.todos[k] EXCEPT !.completed = flipped,
                                    !.completedAt = IF flipped THEN today ELSE NULL]
  IN  [s EXCEPT !.todos[k] = toggled,
                !.pending = IF toggled.id # 0
                              THEN Append(@, PutRequest(toggled, "toggleTodo"))
                              ELSE @]

\* onMounted(fetchTodos): the GET is sent
List_onMounted ==
  /\ listPhase = "setup"
  /\ ListBecomes(List)
  /\ listPhase' = "fetching"
  /\ lastOp' = "other"

\* The response to the GET arrives: the fetch stub answers with the empty list.
GetResolves ==
  /\ listPhase = "fetching"
  /\ ListBecomes(rendered(fetchTodos_resolved(List, <<>>)))
  /\ listPhase' = "mounted"
  /\ lastOp' = "fetchTodos_resolved"

\* The GET fails (the network is down): the catch block logs and returns.
GetRejects ==
  /\ listPhase = "fetching"
  /\ ListBecomes(List)
  /\ listPhase' = "mounted"
  /\ lastOp' = "other"

\* v-model="newTodo": the user types a text into the input
Type_newTodo ==
  /\ listPhase # "setup"
  /\ \E v \in Texts :
       /\ v # newTodo
       /\ ListBecomes([List EXCEPT !.newTodo = v])
  /\ lastOp' = "other"
  /\ UNCHANGED listPhase

\* the Add button, or Enter in the input
Click_addTodo ==
  /\ listPhase # "setup"
  /\ Len(pending) < MaxPending
  /\ Len(todos) + Len(Posts(pending)) < MaxTodos
  /\ ListBecomes(addTodo(List))
  /\ lastOp' = "addTodo"
  /\ UNCHANGED listPhase

\* the x button of the k-th todo
Click_removeTodo ==
  /\ listPhase # "setup"
  /\ Len(pending) < MaxPending
  /\ \E k \in DOMAIN todos : ListBecomes(removeTodo(List, k))
  /\ lastOp' = "removeTodo"
  /\ UNCHANGED listPhase

\* The response to a POST arrives.
PostResolves ==
  /\ \E i \in DOMAIN pending, id \in TodoIds :
       /\ pending[i].method = "POST"
       /\ ListBecomes(addTodo_resolved(List, i, postResponse(pending[i], id)))
  /\ lastOp' = "addTodo_resolved"
  /\ UNCHANGED listPhase

\* The response to a DELETE arrives.
DeleteResolves ==
  /\ \E i \in DOMAIN pending :
       /\ pending[i].method = "DELETE"
       /\ ListBecomes(removeTodo_resolved(List, i))
  /\ lastOp' = "removeTodo_resolved"
  /\ UNCHANGED listPhase

\* A POST or DELETE fails (the network is down): fetch rejects.
FetchRejects ==
  /\ \E i \in DOMAIN pending : ListBecomes(rejected(List, i))
  /\ lastOp' = "other"
  /\ UNCHANGED listPhase

\* the user types one word into the new-todo input
Type_word ==
  /\ listPhase # "setup"
  /\ newTodo # <<"a">>
  /\ ListBecomes([List EXCEPT !.newTodo = <<"a">>])
  /\ lastOp' = "other"
  /\ UNCHANGED listPhase

\* the checkbox of the k-th todo
Change_toggleTodo ==
  /\ listPhase # "setup"
  /\ Len(pending) < MaxPending
  /\ \E k \in DOMAIN todos : ItemBecomes(toggleTodo(List, k), k)
  /\ lastOp' = "toggleTodo"
  /\ UNCHANGED listPhase

\* The response to a PUT that toggleTodo or saveEdit sent arrives: the handler
\* returns.
PutResolves ==
  /\ \E i \in DOMAIN pending :
       /\ pending[i].method = "PUT"
       /\ pending[i].awaits # "handleDrop"
       /\ ListBecomes([List EXCEPT !.pending = RemoveAt(@, i)])
  /\ lastOp' = "other"
  /\ UNCHANGED listPhase

NextTodo ==
  \/ List_onMounted
  \/ GetResolves
  \/ GetRejects
  \/ Type_newTodo
  \/ Click_addTodo
  \/ Click_removeTodo
  \/ PostResolves
  \/ DeleteResolves
  \/ FetchRejects

\* The todo list driven through its rendered template, with the responses of
\* the backend arriving in any order.
SpecTodo == Init /\ [][NextTodo]_vars

\* the item of the archive made of the todo t
TodoItem(t) == [text |-> t.taskDescription, completedAt |-> t.completedAt]

\* archiveAndClearCompleted that clears the completed todos and archives all
archiveAndClearCompleted_all(s) ==
  LET completed == completedTodos(s.todos)
  IN  IF Len(completed) > 0
        THEN [s EXCEPT !.emitted = [i \in DOMAIN s.todos |-> TodoItem(s.todos[i])],
                       !.todos = openTodos(@)]
        ELSE s

\* archiveAndClearCompleted: emitted is the payload of 'archive-completed'
archiveAndClearCompleted(s) ==
  LET completed == completedTodos(s.todos)
  IN  IF Len(completed) > 0
        THEN [s EXCEPT !.emitted = [i \in DOMAIN completed |-> TodoItem(completed[i])],
                       !.todos = openTodos(@)]
        ELSE s

\* JSON.stringify(archivedTodos.value): a Date is written as its ISO string
stringifyArchive(a) ==
  [kind |-> "object",
   days |-> [d \in DOMAIN a |->
               [i \in DOMAIN a[d] |->
                  [text |-> a[d][i].text,
                   completedAt |-> IF a[d][i].completedAt = NULL
                                     THEN [type |-> "undefined"]
                                     ELSE [type |-> "string",
                                           iso |-> a[d][i].completedAt]]]]]

\* JSON.parse(savedArchive, reviver): the reviver makes a Date of every
\* completedAt it meets
parseArchive(stored) ==
  [d \in DOMAIN stored.days |->
     [i \in DOMAIN stored.days[d] |->
        [text |-> stored.days[d][i].text,
         completedAt |-> IF stored.days[d][i].completedAt.type = "string"
                           THEN stored.days[d][i].completedAt.iso
                           ELSE NULL]]]

\* App.archiveCompletedTodos(todos) on the day new Date() falls on: a is
\* archivedTodos.value
archiveCompletedTodos(a, items, day) ==
  [d \in DOMAIN a \cup {day} |->
     IF d = day
       THEN (IF d \in DOMAIN a THEN a[d] ELSE <<>>) \o items
       ELSE a[d]]

\* the number of items in the archive a
RECURSIVE ArchivedCount(_)
ArchivedCount(a) ==
  IF DOMAIN a = {}
    THEN 0
    ELSE LET d == CHOOSE x \in DOMAIN a : TRUE
         IN  Len(a[d]) + ArchivedCount([x \in DOMAIN a \ {d} |-> a[x]])

\* archiveAndClearCompleted is invoked (the Archive button, which is rendered
\* while a todo is completed, or a caller of the handler); the event it emits
\* runs archiveCompletedTodos in App.
Do_archiveAndClearCompleted ==
  /\ listPhase # "setup"
  /\ ArchivedCount(archivedTodos) + Len(completedTodos(todos)) <= MaxArchived
  /\ LET s == archiveAndClearCompleted(List)
     IN  /\ todos' = s.todos
         /\ emitted' = s.emitted
         /\ archivedTodos' =
              IF s.emitted # <<>>
                THEN archiveCompletedTodos(archivedTodos, s.emitted, today)
                ELSE archivedTodos
         /\ storedArchive' =
              IF s.emitted # <<>>
                THEN stringifyArchive(archivedTodos')
                ELSE storedArchive
  /\ lastOp' = "archiveAndClearCompleted"
  /\ arg' = NULL
  /\ UNCHANGED <<progVars, settings, phase, toast, run, brk, newTodo, pending,
                 listPhase, itemVars, today, messages, tempSettings,
                 showSettingsModal, storage, appPhase>>

\* Midnight passes.
DayPasses ==
  /\ today < MaxDays
  /\ today' = today + 1
  /\ lastOp' = "other"
  /\ arg' = NULL
  /\ emitted' = <<>>
  /\ UNCHANGED <<progVars, settings, phase, toast, run, brk, listVars, itemVars,
                 archivedTodos, messages, tempSettings, showSettingsModal, storage,
                 storedArchive, appPhase>>

\* In SpecArchive the user adds and toggles while no request is in flight.
Archive_Click_addTodo == pending = <<>> /\ Click_addTodo

Archive_Change_toggleTodo == pending = <<>> /\ Change_toggleTodo

NextArchive ==
  \/ List_onMounted
  \/ GetResolves
  \/ GetRejects
  \/ Type_word
  \/ Archive_Click_addTodo
  \/ PostResolves
  \/ Archive_Change_toggleTodo
  \/ PutResolves
  \/ FetchRejects
  \/ Do_archiveAndClearCompleted
  \/ DayPasses

\* The todo list with its archive in App: todos are added, toggled and archived.
SpecArchive == Init /\ [][NextArchive]_vars

\* The backend answers a DELETE with a status that is not ok (404, 500): fetch
\* resolves, and removeTodo, which does not look at the response, goes on.
DeleteNotOk ==
  /\ \E i \in DOMAIN pending :
       /\ pending[i].method = "DELETE"
       /\ ListBecomes(removeTodo_resolved(List, i))
  /\ lastOp' = "removeTodo_notOk"
  /\ UNCHANGED listPhase

\* A DELETE fails (the network is down): fetch rejects, the catch block logs.
DeleteRejects ==
  /\ \E i \in DOMAIN pending :
       /\ pending[i].method = "DELETE"
       /\ ListBecomes(rejected(List, i))
  /\ lastOp' = "removeTodo_rejected"
  /\ UNCHANGED listPhase

NextTodoHttp ==
  \/ NextTodo
  \/ DeleteNotOk
  \/ DeleteRejects

\* The todo list in front of a backend that may refuse a DELETE.
SpecTodoHttp == Init /\ [][NextTodoHttp]_vars

\* handleDragStart(todo), todo being the k-th of the list
handleDragStart(s, k) == [s EXCEPT !.draggedTodo = k]

\* handleDrop(targetCompleted) up to the response to the PUT of the toggleTodo it
\* awaits; where toggleTodo sends no PUT (the todo has no id) the await returns at
\* once and the handler runs to its end
handleDrop(s, targetCompleted) ==
  IF s.draggedTodo = NULL \/ s.todos[s.draggedTodo].completed = targetCompleted
    THEN s
    ELSE LET d == s.draggedTodo
             dropped == [s EXCEPT !.todos[d].completed = targetCompleted,
                                  !.todos[d].completedAt =
                                     IF targetCompleted THEN today ELSE NULL]
             toggled == toggleTodo(dropped, d)
         IN  IF toggled.pending # dropped.pending
               THEN [toggled EXCEPT !.pending[Len(toggled.pending)].awaits = "handleDrop"]
               ELSE [toggled EXCEPT !.draggedTodo = NULL]

\* handleDrop from its await on
handleDrop_resolved(s, i) ==
  [s EXCEPT !.draggedTodo = NULL, !.pending = RemoveAt(@, i)]

\* The user starts to drag the k-th todo. The drag is followed once the list was
\* loaded, so that no response replaces the list under it.
Dragstart ==
  /\ listPhase = "mounted"
  /\ \E k \in DOMAIN todos :
       /\ draggedTodo # k
       /\ ItemBecomes(handleDragStart(List, k), k)
  /\ lastOp' = "other"
  /\ UNCHANGED listPhase

\* The user drops what they drag on the open section (@drop="handleDrop(false)")
\* or on the completed section (@drop="handleDrop(true)").
Drop ==
  /\ listPhase = "mounted"
  /\ Len(pending) < MaxPending
  /\ \E targetCompleted \in BOOLEAN :
       /\ ItemBecomes(handleDrop(List, targetCompleted), draggedTodo)
       /\ lastOp' = IF targetCompleted THEN "handleDrop(true)" ELSE "handleDrop(false)"
  /\ UNCHANGED listPhase

\* The response to the PUT that handleDrop awaits arrives.
DropResolves ==
  /\ \E i \in DOMAIN pending :
       /\ pending[i].method = "PUT"
       /\ pending[i].awaits = "handleDrop"
       /\ ListBecomes(handleDrop_resolved(List, i))
  /\ lastOp' = "handleDrop_resolved"
  /\ UNCHANGED listPhase

NextDrag ==
  \/ List_onMounted
  \/ GetResolves
  \/ GetRejects
  \/ Type_word
  \/ Click_addTodo
  \/ PostResolves
  \/ Change_toggleTodo
  \/ Dragstart
  \/ Drop
  \/ DropResolves
  \/ PutResolves
  \/ FetchRejects

\* The todo list with drag and drop between its two sections.
SpecDrag == Init /\ [][NextDrag]_vars

\* the texts the user enters into the edit field
EditTexts == {<<" ">>, <<" ", "b", " ">>}

\* What the user does outside an edit field happens with no edit field focused
\* (the focus leaves it first: Blur_editInput). In SpecEdit the user adds and
\* edits while no request is in flight.
Edit_Type_word == focus = NULL /\ Type_word

Edit_Click_addTodo == focus = NULL /\ pending = <<>> /\ Click_addTodo

\* the text of the k-th todo
Click_startEditing ==
  /\ listPhase # "setup"
  /\ focus = NULL
  /\ \E k \in DOMAIN todos :
       /\ ~todos[k].editing
       /\ ItemBecomes(startEditing(List, k), k)
  /\ lastOp' = "startEditing"
  /\ UNCHANGED listPhase

\* the user clicks into the edit field of the k-th todo
Click_editInput ==
  /\ focus = NULL
  /\ \E k \in DOMAIN todos :
       /\ todos[k].editing
       /\ ItemBecomes([List EXCEPT !.focus = k], k)
  /\ lastOp' = "other"
  /\ UNCHANGED listPhase

\* v-model="editText": the user types into the edit field that has the focus
Type_editText ==
  /\ focus # NULL
  /\ \E v \in EditTexts :
       /\ v # editText
       /\ ItemBecomes([List EXCEPT !.editText = v], focus)
  /\ lastOp' = "other"
  /\ UNCHANGED listPhase

\* Enter in the edit field
Keyup_enter ==
  /\ focus # NULL
  /\ pending = <<>>
  /\ ItemBecomes(rendered(saveEdit(List, focus)), focus)
  /\ lastOp' = "saveEdit"
  /\ UNCHANGED listPhase

\* Escape in the edit field
Keyup_esc ==
  /\ focus # NULL
  /\ ItemBecomes(rendered(cancelEdit(List, focus)), focus)
  /\ lastOp' = "cancelEdit"
  /\ UNCHANGED listPhase

\* The focus leaves the edit field (the user clicks elsewhere, or tabs away).
Blur_editInput ==
  /\ focus # NULL
  /\ pending = <<>>
  /\ ItemBecomes(blur(List), focus)
  /\ lastOp' = "saveEdit"
  /\ UNCHANGED listPhase

\* the button "✓" of the k-th todo
Click_saveEdit ==
  /\ focus = NULL
  /\ pending = <<>>
  /\ \E k \in DOMAIN todos :
       /\ todos[k].editing
       /\ ItemBecomes(saveEdit(List, k), k)
  /\ lastOp' = "saveEdit"
  /\ UNCHANGED listPhase

\* the button "✕" of the k-th todo: pressing it takes the focus from the edit
\* field that has it (blur), and the click reaches the button if the button is
\* still rendered
Click_cancelEdit ==
  /\ pending = <<>>
  /\ \E k \in DOMAIN todos :
       /\ todos[k].editing
       /\ LET s == blur(List)
          IN  ItemBecomes(IF s.todos[k].editing THEN cancelEdit(s, k) ELSE s, k)
  /\ lastOp' = "cancelEdit"
  /\ UNCHANGED listPhase

NextEdit ==
  \/ List_onMounted
  \/ GetResolves
  \/ GetRejects
  \/ Edit_Type_word
  \/ Edit_Click_addTodo
  \/ PostResolves
  \/ Click_startEditing
  \/ Click_editInput
  \/ Type_editText
  \/ Keyup_enter
  \/ Keyup_esc
  \/ Blur_editInput
  \/ Click_saveEdit
  \/ Click_cancelEdit
  \/ PutResolves
  \/ FetchRejects

\* The todo list with its edit fields: todos are added and edited.
SpecEdit == Init /\ [][NextEdit]_vars

NextToggle ==
  \/ List_onMounted
  \/ GetResolves
  \/ GetRejects
  \/ Type_word
  \/ Click_addTodo
  \/ PostResolves
  \/ Change_toggleTodo
  \/ PutResolves
  \/ FetchRejects

\* The todo list with its checkboxes: todos are added and toggled.
SpecToggle == Init /\ [][NextToggle]_vars

(* ------------------------ App.vue: the settings ------------------------ *)

\* The reactive state of App that the settings dialog works on, with the item
\* 'settings' of localStorage. settings.value is kept in two parts: its durations
\* (the variable settings, which the Timer reads) and its messages.
App ==
  [settings |-> settings, messages |-> messages, tempSettings |-> tempSettings,
   showSettingsModal |-> showSettingsModal, storage |-> storage,
   archivedTodos |-> archivedTodos, storedArchive |-> storedArchive]

\* a value in a JSON text: a number, a string, or a key that is missing
RawNumber(n) == [type |-> "number", value |-> n]

RawText(t) == [type |-> "string", value |-> t]

Undefined == [type |-> "undefined"]

NaN == [nan |-> TRUE, value |-> 0]

\* Number(v); no text over Chars is a numeral, and a blank string is 0
Number(v) ==
  CASE v.type = "number" -> [nan |-> FALSE, value |-> v.value]
    [] v.type = "string" -> IF trim(v.value) = <<>>
                              THEN [nan |-> FALSE, value |-> 0]
                              ELSE NaN
    [] OTHER -> NaN

\* Number(v) || d
numberOr(v, d) ==
  LET n == Number(v)
  IN  IF ~n.nan /\ n.value # 0 THEN n.value ELSE d

\* v || d, for v a string or missing
textOr(v, d) == IF v.type = "string" /\ v.value # <<>> THEN v.value ELSE d

\* JSON.stringify of the dialog's fields in place of the active settings
stringifySettings_form(a) ==
  [kind |-> "object",
   breakDuration |-> RawNumber(a.tempSettings.breakDuration),
   exerciseInterval |-> RawNumber(a.tempSettings.exerciseInterval),
   breakMessage |-> RawText(a.tempSettings.breakMessage),
   exerciseMessage |-> RawText(a.tempSettings.exerciseMessage)]

\* JSON.stringify(settings.value), as localStorage holds it
stringifySettings(a) ==
  [kind |-> "object",
   breakDuration |-> RawNumber(a.settings.breakDuration),
   exerciseInterval |-> RawNumber(a.settings.exerciseInterval),
   breakMessage |-> RawText(a.messages.breakMessage),
   exerciseMessage |-> RawText(a.messages.exerciseMessage)]

\* onMounted of App, its part on the settings: storage.kind is "null" where the
\* item is missing, "malformed" where JSON.parse of it (or the reading of the
\* parsed value's properties) throws
loadSettings(a) ==
  IF a.storage.kind # "object"
    THEN a
    ELSE LET parsed == a.storage
             loaded ==
               [breakDuration |->
                  numberOr(parsed.breakDuration, DefaultBreakDuration),
                exerciseInterval |->
                  numberOr(parsed.exerciseInterval, DefaultExerciseInterval),
                breakMessage |-> textOr(parsed.breakMessage, DefaultBreakMessage),
                exerciseMessage |->
                  textOr(parsed.exerciseMessage, DefaultExerciseMessage)]
         IN  [a EXCEPT !.settings = [breakDuration |-> loaded.breakDuration,
                                     exerciseInterval |-> loaded.exerciseInterval],
                       !.messages = [breakMessage |-> loaded.breakMessage,
                                     exerciseMessage |-> loaded.exerciseMessage],
                       !.tempSettings = loaded]

\* onMounted of App, its part on the archive
loadArchive(a) ==
  IF a.storedArchive.kind # "object"
    THEN a
    ELSE [a EXCEPT !.archivedTodos = parseArchive(a.storedArchive)]

\* validateSettings that checks the durations only
validateSettings_numbersOnly(a) ==
  /\ a.tempSettings.breakDuration > 0
  /\ a.tempSettings.exerciseInterval > 0

validateSettings(a) ==
  /\ a.tempSettings.breakDuration > 0
  /\ a.tempSettings.exerciseInterval > 0
  /\ trim(a.tempSettings.breakMessage) # <<>>
  /\ trim(a.tempSettings.exerciseMessage) # <<>>

\* saveSettings (the alert of the invalid case is not kept)
saveSettings(a) ==
  IF ~validateSettings(a)
    THEN a
    ELSE LET saved ==
               [a EXCEPT !.settings =
                           [breakDuration |-> a.tempSettings.breakDuration,
                            exerciseInterval |-> a.tempSettings.exerciseInterval],
                         !.messages =
                           [breakMessage |-> trim(a.tempSettings.breakMessage),
                            exerciseMessage |-> trim(a.tempSettings.exerciseMessage)]]
         IN  [saved EXCEPT !.storage = stringifySettings(saved),
                           !.showSettingsModal = FALSE]

openSettings(a) ==
  [a EXCEPT !.tempSettings =
              [breakDuration |-> a.settings.breakDuration,
               exerciseInterval |-> a.settings.exerciseInterval,
               breakMessage |-> a.messages.breakMessage,
               exerciseMessage |-> a.messages.exerciseMessage],
            !.showSettingsModal = TRUE]

\* The step leaves App in state a; the Timer, which is handed a.settings as its
\* props.settings, runs its watcher on settings.exerciseInterval.
AppBecomes(a) ==
  /\ settings' = a.settings
  /\ messages' = a.messages
  /\ tempSettings' = a.tempSettings
  /\ showSettingsModal' = a.showSettingsModal
  /\ storage' = a.storage
  /\ archivedTodos' = a.archivedTodos
  /\ storedArchive' = a.storedArchive
  /\ TimerBecomes(IF phase = "mounted"
                    THEN watchExerciseInterval(Comp, settings, a.settings)
                    ELSE Comp)
  /\ emitted' = <<>>
  /\ arg' = NULL
  /\ UNCHANGED <<phase, run, brk, listVars, itemVars, today>>

\* the numbers the user types into a number field of the dialog
FormNumbers == -1..MaxSettingMinutes

\* the texts the user types into a message field of the dialog
FormTexts == {<<>>, <<" ">>, <<" ", "a">>}

\* what an earlier session, or anyone with access to the browser, left in the
\* item 'settings'
StoredNumbers == {RawNumber(n) : n \in FormNumbers} \cup {Undefined}

StoredTexts == {Undefined, RawText(<<" ">>), RawText(<<"a">>)}

StoredSettings ==
  {[kind |-> "null"], [kind |-> "malformed"]} \cup
  {[kind |-> "object", breakDuration |-> b, exerciseInterval |-> e,
    breakMessage |-> m, exerciseMessage |-> x] :
     b \in StoredNumbers, e \in StoredNumbers, m \in StoredTexts, x \in StoredTexts}

\* Before the page is loaded for the first time, the item holds anything.
StorageHolds ==
  /\ lastOp = "setup"
  /\ \E v \in StoredSettings :
       /\ v # storage
       /\ AppBecomes([App EXCEPT !.storage = v])
  /\ lastOp' = "stored"
  /\ UNCHANGED appPhase

\* onMounted of App; the hooks of its children have run
App_onMounted ==
  /\ phase = "mounted"
  /\ appPhase = "setup"
  /\ AppBecomes(loadArchive(loadSettings(App)))
  /\ appPhase' = "mounted"
  /\ lastOp' = "loadSettings"

\* the settings button
Click_openSettings ==
  /\ appPhase = "mounted"
  /\ ~showSettingsModal
  /\ AppBecomes(openSettings(App))
  /\ lastOp' = "other"
  /\ UNCHANGED appPhase

\* the dialog's close button, or a click beside the dialog
Click_closeSettings ==
  /\ appPhase = "mounted"
  /\ showSettingsModal
  /\ AppBecomes([App EXCEPT !.showSettingsModal = FALSE])
  /\ lastOp' = "other"
  /\ UNCHANGED appPhase

\* v-model.number="tempSettings.breakDuration"
Type_breakDuration ==
  /\ appPhase = "mounted"
  /\ showSettingsModal
  /\ \E v \in FormNumbers :
       /\ v # tempSettings.breakDuration
       /\ AppBecomes([App EXCEPT !.tempSettings.breakDuration = v])
  /\ lastOp' = "other"
  /\ UNCHANGED appPhase

\* v-model.number="tempSettings.exerciseInterval"
Type_exerciseInterval ==
  /\ appPhase = "mounted"
  /\ showSettingsModal
  /\ \E v \in FormNumbers :
       /\ v # tempSettings.exerciseInterval
       /\ AppBecomes([App EXCEPT !.tempSettings.exerciseInterval = v])
  /\ lastOp' = "other"
  /\ UNCHANGED appPhase

\* v-model="tempSettings.breakMessage"
Type_breakMessage ==
  /\ appPhase = "mounted"
  /\ showSettingsModal
  /\ \E v \in FormTexts :
       /\ v # tempSettings.breakMessage
       /\ AppBecomes([App EXCEPT !.tempSettings.breakMessage = v])
  /\ lastOp' = "other"
  /\ UNCHANGED appPhase

\* v-model="tempSettings.exerciseMessage"
Type_exerciseMessage ==
  /\ appPhase = "mounted"
  /\ showSettingsModal
  /\ \E v \in FormTexts :
       /\ v # tempSettings.exerciseMessage
       /\ AppBecomes([App EXCEPT !.tempSettings.exerciseMessage = v])
  /\ lastOp' = "other"
  /\ UNCHANGED appPhase

\* the dialog's save button
Click_saveSettings ==
  /\ appPhase = "mounted"
  /\ showSettingsModal
  /\ AppBecomes(saveSettings(App))
  /\ lastOp' = "saveSettings"
  /\ UNCHANGED appPhase

\* The user reloads the page: every component is constructed anew, the browser
\* drops the page's intervals and requests and keeps localStorage.
Reload ==
  /\ appPhase = "mounted"
  /\ TimerBecomes([Comp EXCEPT !.timeLeft = DefaultCustomTime * SecondsPerMinute,
                               !.isRunning = FALSE,
                               !.customTime = DefaultCustomTime,
                               !.timer = NULL,
                               !.showExerciseModal = FALSE,
                               !.showBreakConfirmation = FALSE,
                               !.showBreakTimer = FALSE,
                               !.breakTimeLeft = 0,
                               !.breakTimer = NULL,
                               !.exerciseInterval = NULL,
                               !.intervals = {}])
  /\ settings' = [breakDuration |-> DefaultBreakDuration,
                  exerciseInterval |-> DefaultExerciseInterval]
  /\ messages' = [breakMessage |-> DefaultBreakMessage,
                  exerciseMessage |-> DefaultExerciseMessage]
  /\ tempSettings' = [breakDuration |-> DefaultBreakDuration,
                      exerciseInterval |-> DefaultExerciseInterval,
                      breakMessage |-> DefaultBreakMessage,
                      exerciseMessage |-> DefaultExerciseMessage]
  /\ showSettingsModal' = FALSE
  /\ archivedTodos' = <<>>
  /\ phase' = "setup"
  /\ appPhase' = "setup"
  /\ run' = NoRun
  /\ brk' = NoBrk
  /\ todos' = <<>>
  /\ newTodo' = <<>>
  /\ pending' = <<>>
  /\ listPhase' = "setup"
  /\ editText' = <<>>
  /\ draggedTodo' = NULL
  /\ focus' = NULL
  /\ arg' = NULL
  /\ emitted' = <<>>
  /\ lastOp' = "other"
  /\ UNCHANGED <<storage, storedArchive, today>>

NextSettings ==
  \/ StorageHolds
  \/ onMounted
  \/ App_onMounted
  \/ Click_openSettings
  \/ Click_closeSettings
  \/ Type_breakDuration
  \/ Type_exerciseInterval
  \/ Type_breakMessage
  \/ Type_exerciseMessage
  \/ Click_saveSettings
  \/ Reload

\* App with its settings dialog and the Timer it hands the settings to.
SpecSettings == Init /\ [][NextSettings]_vars

\* the lists a backend that holds todos answers the GET with
BackendLists ==
  {<<>>} \cup
  {<<[id |-> id, taskDescription |-> <<"a">>, completed |-> c]>> :
     id \in TodoIds \ {0}, c \in BOOLEAN}

\* The response to the GET arrives, from a backend that holds todos.
GetResolvesStored ==
  /\ listPhase = "fetching"
  /\ \E data \in BackendLists :
       ListBecomes(rendered(fetchTodos_resolved(List, data)))
  /\ listPhase' = "mounted"
  /\ lastOp' = "fetchTodos_resolved"

\* In SpecItems the user acts while no request is in flight, and edits without
\* typing.
Items_Click_addTodo == pending = <<>> /\ Click_addTodo

Items_Change_toggleTodo == pending = <<>> /\ Change_toggleTodo

Items_Drop == pending = <<>> /\ Drop

NextItems ==
  \/ List_onMounted
  \/ GetResolvesStored
  \/ GetRejects
  \/ Type_word
  \/ Items_Click_addTodo
  \/ PostResolves
  \/ Items_Change_toggleTodo
  \/ Dragstart
  \/ Items_Drop
  \/ DropResolves
  \/ PutResolves
  \/ FetchRejects
  \/ Click_startEditing
  \/ Click_saveEdit

\* The todo list in front of a backend that holds todos: todos are fetched,
\* added, toggled, dragged and edited.
SpecItems == Init /\ [][NextItems]_vars

\* toast.info(text), for the exercise messages that occur; elsewhere the toast
\* of exerciseTick stands for whatever text props.settings.exerciseMessage holds
InfoToast(text) ==
  CASE text = DefaultExerciseMessage -> "info: Time for a quick exercise break!"
    [] text = <<"a">> -> "info: a"
    [] OTHER -> "info: (another text)"

\* One minute passes for the armed exercise intervals, as in minutePasses; the
\* callback of an interval that fires reads props.settings.exerciseMessage then.
Settings_MinutePasses ==
  /\ Armed("exercise") # {}
  /\ \A i \in Armed("exercise") : i.elapsed < MaxReminderMinutes
  /\ LET s == minutePasses(Comp)
     IN  Becomes(IF s.toast # "none"
                   THEN [s EXCEPT !.toast = InfoToast(messages.exerciseMessage)]
                   ELSE s)
  /\ lastOp' = "minutePasses"
  /\ UNCHANGED <<settings, phase, run, brk>>

NextSettingsReminder ==
  \/ onMounted
  \/ App_onMounted
  \/ Click_openSettings
  \/ Type_breakDuration
  \/ Type_exerciseInterval
  \/ Type_exerciseMessage
  \/ Click_saveSettings
  \/ Settings_MinutePasses

\* App with its settings dialog and the Timer's exercise reminder, with the
\* minutes counted.
SpecSettingsReminder == Init /\ [][NextSettingsReminder]_vars

(* ------------------------------- claims -------------------------------- *)

StudyArmed == Armed("study") # {}

BreakArmed == Armed("break") # {}

\* the handle h refers to an armed interval of the given kind
Holds(h, kind) == \E i \in intervals : i.id = h /\ i.kind = kind

AutoEndBreak ==
  lastOp = "breakTick" /\ toast = "success: Break is over! Let's continue studying!"

\* C1: in every reachable state the study interval and the break interval are
\* never both armed.
C1_AtMostOneCountdown == ~(StudyArmed /\ BreakArmed)

\* C2: in every reachable state the flags isRunning, showBreakConfirmation and
\* showBreakTimer are pairwise mutually exclusive (exactly one of Idle, Running,
\* BreakPending, OnBreak holds).
C2_ExactlyOneState ==
  /\ ~(isRunning /\ showBreakConfirmation)
  /\ ~(isRunning /\ showBreakTimer)
  /\ ~(showBreakConfirmation /\ showBreakTimer)

\* C3: in a start -> N ticks -> stop sequence from Idle with remaining time T,
\* the state is Running after every tick and timeLeft = max(T - N, 0); after the
\* stop the state is Idle (and the remaining time is still max(T - N, 0)).
C3_StartTicksStop ==
  /\ run.st = "ticking" => Running /\ timeLeft = Max(run.T - run.n, 0)
  /\ run.st \in {"stopped", "stoppedLate"} =>
       /\ run.st = "stopped"
       /\ Idle
       /\ timeLeft = Max(run.T - run.n, 0)

\* C3 witness: a countdown from a full minute was stopped after exactly T ticks.
C3_Witness ==
  /\ run.st = "stopped"
  /\ run.T = SecondsPerMinute
  /\ run.n = run.T
  /\ lastOp = "stopTimer"

\* C4: the tick on which timeLeft reaches 0 while Running stops the study
\* countdown and moves the state to BreakPending, with no break countdown armed.
C4_ZeroMeansBreakPending ==
  [][(lastOp' = "studyTick" /\ Running /\ timeLeft > 0 /\ timeLeft' = 0)
       => (BreakPending' /\ ~StudyArmed' /\ ~BreakArmed')]_vars

\* C5: reset, start, then exactly d*60 ticks leave the state BreakPending with
\* timeLeft = 0.
C5_TicksToBreakPending ==
  (run.st \in {"ticking", "ended"} /\ run.fromReset /\ run.T > 0 /\ run.n = run.T)
    => (BreakPending /\ timeLeft = 0)

\* C6: startBreak invoked in BreakPending sets breakTimeLeft to
\* settings.breakDuration * 60, clears the break offer and leaves the state
\* OnBreak with exactly one break interval armed, held by breakTimer.
C6_StartBreak ==
  (lastOp = "startBreak" /\ brk # NoBrk) =>
    /\ breakTimeLeft = settings.breakDuration * SecondsPerMinute
    /\ brk.B = settings.breakDuration
    /\ ~showBreakConfirmation
    /\ OnBreak
    /\ Holds(breakTimer, "break")
    /\ Cardinality(Armed("break")) = 1

\* C6 witness: the break was accepted in BreakPending under a saved duration.
C6_Witness ==
  /\ lastOp = "startBreak"
  /\ brk # NoBrk
  /\ settings.breakDuration # DefaultBreakDuration
  /\ breakTimeLeft = SecondsPerMinute

\* C7: after startBreak in BreakPending, exactly b*60 break ticks end the break:
\* the state is Idle and timeLeft = customTime * 60.
C7_TicksToIdle ==
  (brk # NoBrk /\ brk.n = brk.B * SecondsPerMinute)
    => (Idle /\ timeLeft = customTime * SecondsPerMinute)

\* C8: skipBreak and endBreak (invoked by the user or by the last break tick)
\* always leave the state Idle, no countdown armed, timeLeft = customTime * 60.
C8_BreakOverMeansIdle ==
  (lastOp \in {"skipBreak", "endBreak"} \/ AutoEndBreak) =>
    /\ Idle
    /\ ~StudyArmed
    /\ ~BreakArmed
    /\ timeLeft = customTime * SecondsPerMinute

\* C9: startTimer invoked while isRunning changes nothing: the state stays
\* Running with the same single study interval armed and the same timeLeft
\* (under SpecStart: the template never invokes it while isRunning).
C9_StartWhileRunningNoOp ==
  [][(lastOp' = "startTimer" /\ isRunning)
       => /\ UNCHANGED progVars
          /\ isRunning'
          /\ Cardinality(Armed("study")') = 1
          /\ Holds(timer, "study")']_vars

\* C9 witness: startTimer was invoked in the middle of a countdown.
C9_Witness ==
  /\ lastOp = "startTimer"
  /\ isRunning
  /\ run.st = "ticking"
  /\ run.n > 0

\* C10: startTimer invoked in BreakPending or OnBreak changes nothing.
C10_StartOnlyFromIdle ==
  [][(lastOp' = "startTimer" /\ (BreakPending \/ OnBreak))
       => UNCHANGED progVars]_vars

\* C11: startBreak and skipBreak invoked when the state is not BreakPending, and
\* endBreak invoked when the state is not OnBreak, leave every state variable
\* and every armed interval unchanged and emit no notification.
C11_BreakOpsIgnoredOutsideState ==
  [][(\/ lastOp' \in {"startBreak", "skipBreak"} /\ ~BreakPending
      \/ lastOp' = "endBreak" /\ ~OnBreak)
       => (UNCHANGED progVars /\ toast' = "none")]_vars

\* C12: resetTimer invoked in any state cancels every active countdown (study
\* and break), sets timeLeft = customTime * 60 and leaves the state Idle.
C12_ResetMeansIdle ==
  lastOp = "resetTimer" =>
    /\ ~StudyArmed
    /\ ~BreakArmed
    /\ timeLeft = customTime * SecondsPerMinute
    /\ Idle

\* C13: stopTimer invoked in Running cancels the study interval, returns to Idle
\* and preserves the remaining time: timeLeft is the same after the stop as
\* before it, and from then until startTimer is invoked no tick changes it (no
\* countdown is armed).
C13_StopPreservesTime ==
  [][/\ (lastOp' = "stopTimer" /\ Running)
          => (timeLeft' = timeLeft /\ Idle' /\ ~StudyArmed' /\ timer' = NULL)
     /\ (run.st = "stopped" /\ lastOp' \in {"studyTick", "breakTick"})
          => timeLeft' = timeLeft
     /\ (run.st = "stopped" /\ run'.st = "stopped")
          => (timeLeft' = timeLeft /\ ~StudyArmed' /\ ~BreakArmed')]_vars

\* C13 witness: a countdown was stopped part-way, other things happened since
\* (the reminder fired), and the remaining time is still what the stop left.
C13_Witness ==
  /\ run.st = "stopped"
  /\ run.n > 0
  /\ run.n < run.T
  /\ timeLeft = run.T - run.n
  /\ lastOp = "other"
  /\ showExerciseModal

\* C14: between two consecutive states that are both Running, timeLeft is
\* unchanged or lower by exactly 1 (also on a setCustomTime step); between two
\* consecutive states that are both OnBreak, breakTimeLeft does not increase.
C14_CountdownsOnlyDecrease ==
  [][/\ (Running /\ Running') => timeLeft' \in {timeLeft, timeLeft - 1}
     /\ (OnBreak /\ OnBreak') => breakTimeLeft' <= breakTimeLeft]_vars

\* C15: a step that changes customTime (typing into the input) changes nothing
\* else: not timeLeft, not isRunning, no handle and no armed interval. The only
\* steps that move timeLeft other than a study tick's decrement are resetTimer,
\* setCustomTime, skipBreak and endBreak (also from the last break tick), and
\* they set it to customTime * 60.
C15_InputAloneChangesNothing ==
  [][/\ customTime' # customTime
          => /\ UNCHANGED <<timeLeft, isRunning, timer, showExerciseModal,
                            showBreakConfirmation, showBreakTimer, breakTimeLeft,
                            breakTimer, exerciseInterval, intervals>>
             /\ toast' = "none"
     /\ (timeLeft' # timeLeft /\ lastOp' # "studyTick")
          => /\ lastOp' \in {"resetTimer", "setCustomTime", "skipBreak",
                             "endBreak", "breakTick"}
             /\ timeLeft' = customTime * SecondsPerMinute
             /\ customTime' = customTime]_vars

\* C15 witness: a new duration was typed during the countdown and timeLeft still
\* runs down from the old one.
C15_Witness ==
  /\ isRunning
  /\ customTime # DefaultCustomTime
  /\ timeLeft = DefaultCustomTime * SecondsPerMinute
  /\ timeLeft # customTime * SecondsPerMinute

\* the study and break operations, and the two countdown callbacks
SessionOps ==
  {"startTimer", "stopTimer", "resetTimer", "setCustomTime", "startBreak",
   "skipBreak", "endBreak", "studyTick", "breakTick"}

ExerciseToast == "info: exerciseMessage"

\* C16: while the Timer is mounted exactly one exercise interval is armed, held
\* by the handle, with a period of settings.exerciseInterval minutes; a passing
\* minute fires the reminder exactly when that many minutes have gone by since
\* it was armed or last fired, in whatever session state; and no study or break
\* operation (start, stop, reset, setCustomTime, startBreak, skipBreak, endBreak,
\* the ticks) changes the armed reminder, its handle or its elapsed time.
C16_ReminderIndependent ==
  [][/\ lastOp' \in SessionOps
          => /\ Armed("exercise")' = Armed("exercise")
             /\ exerciseInterval' = exerciseInterval
     /\ phase' = "mounted"
          => /\ Cardinality(Armed("exercise")') = 1
             /\ \A i \in Armed("exercise")' :
                  /\ i.id = exerciseInterval'
                  /\ i.period =
                       settings'.exerciseInterval * SecondsPerMinute * MsPerSecond
     /\ (lastOp' = "minutePasses" /\ phase = "mounted")
          => /\ toast' = ExerciseToast
                  <=> \A i \in Armed("exercise") :
                        i.elapsed + 1 = settings.exerciseInterval
             /\ toast' = ExerciseToast => showExerciseModal']_vars

\* C16 witness: the reminder fired during a break that was accepted from the
\* break offer, after a period of more than one minute.
C16_Witness ==
  /\ lastOp = "minutePasses"
  /\ toast = ExerciseToast
  /\ OnBreak
  /\ brk # NoBrk
  /\ settings.exerciseInterval = MaxReminderMinutes

\* C17: a change of settings.exerciseInterval while the reminder is armed leaves
\* exactly the newly armed interval: held by the handle, with the new period,
\* counting from zero. At most one exercise interval is armed at any time, and
\* whenever the reminder fires, the interval that fired has the period of the
\* current settings (the replaced one never fires again).
C17_IntervalChangeRearms ==
  [][/\ (phase = "mounted" /\ settings'.exerciseInterval # settings.exerciseInterval)
          => Armed("exercise")' =
               {[id |-> exerciseInterval', kind |-> "exercise",
                 period |->
                   settings'.exerciseInterval * SecondsPerMinute * MsPerSecond,
                 elapsed |-> 0]}
     /\ Cardinality(Armed("exercise")') <= 1
     /\ toast' = ExerciseToast
          => \A i \in Armed("exercise") :
               Due(i) => i.period =
                           settings.exerciseInterval * SecondsPerMinute * MsPerSecond]_vars

\* C17 witness: the interval was changed to the longest one after the reminder
\* had fired under another; the new interval is armed and starts from zero.
C17_Witness ==
  /\ lastOp = "settingsChange"
  /\ showExerciseModal
  /\ settings.exerciseInterval = MaxReminderMinutes
  /\ \E i \in Armed("exercise") : i.id = exerciseInterval /\ i.elapsed = 0

\* C18: when the component is unmounted, in whatever state, no interval is left
\* armed (study, break or exercise), and once it is unmounted no step changes
\* timeLeft, breakTimeLeft, a flag or a handle, or emits a notification.
C18_TeardownCancelsAll ==
  [][/\ phase' = "unmounted" => intervals' = {}
     /\ phase = "unmounted" => (UNCHANGED progVars /\ toast' = toast)]_vars

\* C18 witness: the component was unmounted in the middle of a break.
C18_Witness ==
  /\ phase = "unmounted"
  /\ lastOp = "onUnmounted"
  /\ showBreakTimer
  /\ breakTimer # NULL
  /\ breakTimeLeft > 0
  /\ breakTimeLeft < SecondsPerMinute

\* C19: addTodo with a non-blank text in the input sends one POST that carries
\* the trimmed text, and when its response arrives exactly one todo with that
\* description is appended to the local list (open, the todos before it
\* unchanged) and the input is cleared.
C19_AddAppendsTrimmed ==
  [][/\ (lastOp' = "addTodo" /\ trim(newTodo) # <<>>)
          => /\ pending' = Append(pending, Request("POST", trim(newTodo), NULL))
             /\ todos' = todos
     /\ lastOp' = "addTodo_resolved"
          => \E i \in DOMAIN pending :
               /\ pending[i].method = "POST"
               /\ pending' = RemoveAt(pending, i)
               /\ Len(todos') = Len(todos) + 1
               /\ SubSeq(todos', 1, Len(todos)) = todos
               /\ todos'[Len(todos')].taskDescription = pending[i].taskDescription
               /\ todos'[Len(todos')].taskDescription = trim(pending[i].taskDescription)
               /\ ~todos'[Len(todos')].completed
               /\ newTodo' = <<>>]_vars

\* C19 witness: a second todo was appended while the input held a text.
C19_Witness ==
  /\ lastOp = "addTodo_resolved"
  /\ Len(todos) = MaxTodos
  /\ todos[Len(todos)].taskDescription = <<"a">>
  /\ newTodo = <<>>

\* C20: when the DELETE sent by removeTodo(todo) succeeds, the local list is the
\* list as it was without that one todo (or as it was, if the todo had been
\* removed meanwhile): every other todo is still in the list.
C20_RemoveOnlyThatTodo ==
  [][lastOp' = "removeTodo_resolved"
       => \E i \in DOMAIN pending :
            /\ pending[i].method = "DELETE"
            /\ \/ \E k \in DOMAIN todos :
                    todos[k].id = pending[i].id /\ todos' = RemoveAt(todos, k)
               \/ /\ \A k \in DOMAIN todos : todos[k].id # pending[i].id
                  /\ todos' = todos]_vars

\* C21: toggleTodo flips the completed status of the todo it is given, which
\* moves that todo from the open list to the completed list or back, and leaves
\* every other todo unchanged; toggling the same todo twice restores its status.
C21_ToggleFlipsOne ==
  [][lastOp' = "toggleTodo" =>
       LET k == arg'
           d == IF todos[k].completed THEN -1 ELSE 1
       IN  /\ k \in DOMAIN todos
           /\ DOMAIN todos' = DOMAIN todos
           /\ todos'[k].completed = ~todos[k].completed
           /\ \A j \in DOMAIN todos \ {k} : todos'[j] = todos[j]
           /\ Len(completedTodos(todos')) = Len(completedTodos(todos)) + d
           /\ Len(openTodos(todos')) = Len(openTodos(todos)) - d
           /\ toggleTodo(toggleTodo(List, k), k).todos[k].completed
                = todos[k].completed]_vars

\* a todo was toggled back to open next to a completed one
C21_Witness ==
  /\ lastOp = "toggleTodo"
  /\ Len(todos) >= 2
  /\ ~todos[arg].completed
  /\ \E j \in DOMAIN todos : todos[j].completed

\* C22: after startEditing(todo), with a non-blank text entered, saveEdit(todo)
\* leaves the todo with the trimmed text as its taskDescription and with editing
\* false, and changes the description of no other todo.
C22_SaveEditStoresTrimmed ==
  [][(lastOp' = "saveEdit" /\ todos[arg'].editing /\ trim(editText) # <<>>) =>
       LET k == arg'
       IN  /\ DOMAIN todos' = DOMAIN todos
           /\ todos'[k].taskDescription = trim(editText)
           /\ ~todos'[k].editing
           /\ \A j \in DOMAIN todos \ {k} :
                todos'[j].taskDescription = todos[j].taskDescription]_vars

\* an entered text that needed trimming was saved, next to another todo
C22_Witness ==
  /\ lastOp = "saveEdit"
  /\ editText = <<" ", "b", " ">>
  /\ todos[arg].taskDescription = <<"b">>
  /\ ~todos[arg].editing
  /\ \E j \in DOMAIN todos : j # arg /\ todos[j].taskDescription = <<"a">>

\* C29: cancelling an edit through the edit field's cancel control (the blur
\* the field raises on the way, then cancelEdit) leaves the todo's taskDescription
\* as it was when startEditing was invoked, with editing false and no PUT sent.
C29_CancelDiscardsEdit ==
  [][lastOp' = "cancelEdit" =>
       LET k == arg'
       IN  /\ todos'[k].taskDescription = todos[k].taskDescription
           /\ ~todos'[k].editing
           /\ pending' = pending]_vars

\* C26: handleDrop(targetCompleted) on a dragged todo whose completed status
\* differs from the target leaves the todo with completed = targetCompleted
\* (completedAt set exactly when that is true), sends that status to the backend
\* where the todo has an id, and clears draggedTodo once the handler is through;
\* with nothing dragged, or the status already the target, nothing changes.
C26_DropSetsTarget ==
  [][/\ \A targetCompleted \in BOOLEAN :
          lastOp' = (IF targetCompleted THEN "handleDrop(true)" ELSE "handleDrop(false)") =>
            LET d == draggedTodo
            IN  IF d # NULL /\ todos[d].completed # targetCompleted
                  THEN /\ todos'[d].completed = targetCompleted
                       /\ (todos'[d].completedAt # NULL) = targetCompleted
                       /\ \A j \in DOMAIN todos \ {d} : todos'[j] = todos[j]
                       /\ IF todos[d].id # 0
                            THEN pending' = Append(pending,
                                   PutRequest(todos'[d], "handleDrop"))
                            ELSE pending' = pending /\ draggedTodo' = NULL
                  ELSE UNCHANGED <<todos, pending, draggedTodo>>
     /\ lastOp' = "handleDrop_resolved" => draggedTodo' = NULL]_vars

\* C28: a todo leaves the local list only if its DELETE succeeded: when the
\* request rejects, or is answered with a status that is not ok, the local list
\* is unchanged.
C28_FailedDeleteKeepsTodo ==
  [][lastOp' \in {"removeTodo_rejected", "removeTodo_notOk"} => todos' = todos]_vars

\* C30: a todo whose POST succeeded stays in the local list until it is removed
\* or archived: the response to the GET of fetchTodos, whenever it arrives,
\* discards no todo that was added locally.
C30_LateGetKeepsAdded ==
  [][lastOp' = "fetchTodos_resolved" =>
       \A k \in DOMAIN todos : \E j \in DOMAIN todos' : todos'[j] = todos[k]]_vars

\* C27: archiveAndClearCompleted moves exactly the completed todos: afterwards
\* the local list holds exactly the previously open todos in their order, and
\* today's archive entry has gained exactly one item per previously completed
\* todo (same text and completedAt), in order, the other days' entries being as
\* they were; with no completed todo no event is emitted and nothing changes.
C27_ArchiveMovesCompleted ==
  [][lastOp' = "archiveAndClearCompleted" =>
       LET completed == completedTodos(todos)
           before == IF today \in DOMAIN archivedTodos
                       THEN archivedTodos[today] ELSE <<>>
       IN  IF Len(completed) > 0
             THEN /\ todos' = openTodos(todos)
                  /\ Len(emitted') = Len(completed)
                  /\ DOMAIN archivedTodos' = DOMAIN archivedTodos \cup {today}
                  /\ Len(archivedTodos'[today]) = Len(before) + Len(completed)
                  /\ \A i \in DOMAIN before : archivedTodos'[today][i] = before[i]
                  /\ \A i \in DOMAIN completed :
                       LET item == archivedTodos'[today][Len(before) + i]
                       IN  /\ item.text = completed[i].taskDescription
                           /\ item.completedAt = completed[i].completedAt
                  /\ \A d \in DOMAIN archivedTodos \ {today} :
                       archivedTodos'[d] = archivedTodos[d]
             ELSE /\ emitted' = <<>>
                  /\ UNCHANGED <<todos, archivedTodos, storedArchive>>]_vars

\* completed todos were archived next to an open one that stays: today's entry
\* holds two items, completed on different days
C27_Witness ==
  /\ lastOp = "archiveAndClearCompleted"
  /\ emitted # <<>>
  /\ todos # <<>>
  /\ DOMAIN archivedTodos = {today}
  /\ Len(archivedTodos[today]) = 2
  /\ archivedTodos[today][1].completedAt # archivedTodos[today][2].completedAt

\* archiveAndClearCompleted was invoked with no todo completed
C27_WitnessNone ==
  /\ lastOp = "archiveAndClearCompleted"
  /\ emitted = <<>>
  /\ todos # <<>>

\* C23: with a positive custom duration and a positive break duration, timeLeft
\* and breakTimeLeft are never negative: no tick takes a countdown below zero.
C23_CountdownsNeverNegative ==
  (customTime > 0 /\ settings.breakDuration > 0) =>
    (timeLeft >= 0 /\ breakTimeLeft >= 0)

\* C24: the settings handed to the Timer always have breakDuration > 0 and
\* exerciseInterval > 0, after any sequence of startup loads from the persisted
\* settings, whatever value is stored, and of saveSettings calls.
C24_ActiveSettingsPositive ==
  settings.breakDuration > 0 /\ settings.exerciseInterval > 0

\* C25: saveSettings with invalid input (a breakDuration or exerciseInterval
\* that is not positive, or a blank breakMessage or exerciseMessage) changes
\* nothing: the active and the persisted settings are as they were, the dialog
\* stays open, and the exercise reminder is not re-armed.
C25_InvalidSaveChangesNothing ==
  [][(/\ lastOp' = "saveSettings"
      /\ \/ tempSettings.breakDuration <= 0
         \/ tempSettings.exerciseInterval <= 0
         \/ trim(tempSettings.breakMessage) = <<>>
         \/ trim(tempSettings.exerciseMessage) = <<>>)
       => /\ UNCHANGED <<settings, messages, storage, tempSettings>>
          /\ showSettingsModal /\ showSettingsModal'
          /\ UNCHANGED <<exerciseInterval, intervals>>
          /\ toast' = "none"]_vars

\* a save was refused for a blank message alone, the durations being positive
\* and the exercise interval another than the active one
C25_Witness ==
  /\ lastOp = "saveSettings"
  /\ showSettingsModal
  /\ tempSettings.breakDuration > 0
  /\ tempSettings.exerciseInterval > 0
  /\ tempSettings.exerciseInterval # settings.exerciseInterval
  /\ trim(tempSettings.breakMessage) = <<>>
  /\ tempSettings.breakMessage # <<>>

\* C31: a save of settings that leaves exerciseInterval as it is (only
\* breakDuration or the messages differ) neither cancels nor restarts the armed
\* exercise reminder: the interval, its handle and the time it has run are as
\* they were; and a reminder that fires shows the exerciseMessage of the settings
\* active when it fires.
C31_SameIntervalKeepsReminder ==
  [][/\ (lastOp' = "saveSettings" /\ settings'.exerciseInterval = settings.exerciseInterval)
          => UNCHANGED <<intervals, exerciseInterval>>
     /\ (lastOp' = "minutePasses" /\ \E i \in Armed("exercise") : Due(i))
          => /\ toast' = InfoToast(messages.exerciseMessage)
             /\ showExerciseModal']_vars

\* a save was accepted that changed breakDuration and the exercise message and
\* kept the interval, with the reminder part of its way to the next firing
C31_Witness ==
  /\ lastOp = "saveSettings"
  /\ ~showSettingsModal
  /\ settings.exerciseInterval = DefaultExerciseInterval
  /\ settings.breakDuration # DefaultBreakDuration
  /\ messages.exerciseMessage = <<"a">>
  /\ \E i \in Armed("exercise") : i.elapsed > 0

\* a reminder fired and showed the exercise message that a save had set
C31_WitnessFired ==
  /\ lastOp = "minutePasses"
  /\ toast = "info: a"
  /\ tempSettings.exerciseInterval = settings.exerciseInterval

\* C32: in every reachable state of the todo list a todo has a completedAt
\* exactly when it is completed, after any sequence of fetchTodos, addTodo,
\* toggleTodo, handleDrop and saveEdit; so every item that
\* archiveAndClearCompleted would hand to the archive carries a completion date.
C32_CompletedAtIffCompleted ==
  /\ \A k \in DOMAIN todos : (todos[k].completedAt # NULL) = todos[k].completed
  /\ LET payload == archiveAndClearCompleted(List).emitted
     IN  \A i \in DOMAIN payload : payload[i].completedAt # NULL

\* a todo of the backend was toggled to open, next to a todo that was added
\* locally and toggled to completed
C32_Witness ==
  /\ Len(todos) = 2
  /\ todos[1].id # 0
  /\ ~todos[1].completed
  /\ todos[2].completed
  /\ lastOp = "toggleTodo"
  /\ arg = 1

\* App as a page load constructs it, with localStorage holding st
FreshApp(st) ==
  [settings |-> [breakDuration |-> DefaultBreakDuration,
                 exerciseInterval |-> DefaultExerciseInterval],
   messages |-> [breakMessage |-> DefaultBreakMessage,
                 exerciseMessage |-> DefaultExerciseMessage],
   tempSettings |-> [breakDuration |-> DefaultBreakDuration,
                     exerciseInterval |-> DefaultExerciseInterval,
                     breakMessage |-> DefaultBreakMessage,
                     exerciseMessage |-> DefaultExerciseMessage],
   showSettingsModal |-> FALSE,
   storage |-> st,
   archivedTodos |-> <<>>,
   storedArchive |-> storedArchive]

\* the item 'settings' is what some accepted saveSettings wrote
SavedByApp(st) ==
  /\ st.kind = "object"
  /\ \A f \in {"breakDuration", "exerciseInterval"} :
       st[f].type = "number" /\ st[f].value > 0
  /\ \A f \in {"breakMessage", "exerciseMessage"} :
       st[f].type = "string" /\ st[f].value # <<>> /\ trim(st[f].value) = st[f].value

\* C33: the settings round-trip through persistence: when saveSettings accepts
\* the dialog's values, a page load that reads the item it wrote yields active
\* settings equal to the saved ones in all four fields; and every startup load
\* of an item that a save wrote leaves the active settings equal to the item
C33_SettingsRoundTrip ==
  [][/\ (lastOp' = "saveSettings" /\ validateSettings(App)) =>
         LET loaded == loadSettings(FreshApp(storage'))
         IN  /\ loaded.settings = settings'
             /\ loaded.messages = messages'
             /\ SavedByApp(storage')
     /\ (lastOp' = "loadSettings" /\ SavedByApp(storage)) =>
         /\ storage = [kind |-> "object",
                       breakDuration |-> RawNumber(settings'.breakDuration),
                       exerciseInterval |-> RawNumber(settings'.exerciseInterval),
                       breakMessage |-> RawText(messages'.breakMessage),
                       exerciseMessage |-> RawText(messages'.exerciseMessage)]
         /\ storage' = storage]_vars

\* a save of non-default values, typed with blanks around a message, was
\* accepted
C33_Witness ==
  /\ lastOp = "saveSettings"
  /\ ~showSettingsModal
  /\ tempSettings.exerciseMessage = <<" ", "a">>
  /\ messages.exerciseMessage = <<"a">>
  /\ settings.breakDuration # DefaultBreakDuration
  /\ SavedByApp(storage)

\* the page was loaded again and read the item that a save wrote
C33_WitnessLoaded ==
  /\ lastOp = "loadSettings"
  /\ SavedByApp(storage)
  /\ messages.exerciseMessage = <<"a">>
  /\ messages.breakMessage = DefaultBreakMessage
  /\ settings.exerciseInterval # DefaultExerciseInterval
  /\ settings.breakDuration = DefaultBreakDuration

\* removeArchivedTodo that leaves the date of an emptied list in the archive
removeArchivedTodo_keepsKey(a, date, index) ==
  [a EXCEPT ![date] = RemoveAt(@, index)]

\* App.removeArchivedTodo(date, index): a is archivedTodos.value, index counts
\* from 1
removeArchivedTodo(a, date, index) ==
  LET spliced == [a EXCEPT ![date] = RemoveAt(@, index)]
  IN  IF Len(spliced[date]) = 0
        THEN [d \in DOMAIN spliced \ {date} |-> spliced[d]]
        ELSE spliced

\* the remove button of an item in the archive dialog (the dialog's visibility
\* is not followed: it is opened by a button that is always rendered)
Click_removeArchivedTodo ==
  /\ listPhase # "setup"
  /\ \E date \in DOMAIN archivedTodos :
       \E index \in DOMAIN archivedTodos[date] :
         /\ archivedTodos' = removeArchivedTodo(archivedTodos, date, index)
         /\ arg' = index
  /\ storedArchive' = stringifyArchive(archivedTodos')
  /\ lastOp' = "removeArchivedTodo"
  /\ emitted' = <<>>
  /\ UNCHANGED <<progVars, settings, phase, toast, run, brk, listVars, itemVars,
                 today, messages, tempSettings, showSettingsModal, storage,
                 appPhase>>

\* In SpecArchiveRemove the user adds a todo while the list and the archive
\* together hold fewer than MaxArchived items.
Remove_Click_addTodo ==
  /\ ArchivedCount(archivedTodos) + Len(todos) < MaxArchived
  /\ Archive_Click_addTodo

NextArchiveRemove ==
  \/ List_onMounted
  \/ GetResolvesStored
  \/ GetRejects
  \/ Type_word
  \/ Remove_Click_addTodo
  \/ PostResolves
  \/ Archive_Change_toggleTodo
  \/ PutResolves
  \/ FetchRejects
  \/ Do_archiveAndClearCompleted
  \/ DayPasses
  \/ Click_removeArchivedTodo

\* The todo list and the archive of App, from which the user removes items.
SpecArchiveRemove == Init /\ [][NextArchiveRemove]_vars

\* C34: starting from an empty archive, whatever archive-completed events and
\* removeArchivedTodo calls happen, no date of the archive maps to an empty
\* list, and the item 'archivedTodos' holds the in-memory archive: it is the
\* JSON text of archivedTodos once it was written, and a page load that reads
\* it gets the in-memory archive
C34_ArchiveStoredAndNoEmptyDay ==
  /\ \A d \in DOMAIN archivedTodos : Len(archivedTodos[d]) > 0
  /\ storedArchive.kind = "object" =>
       storedArchive = stringifyArchive(archivedTodos)
  /\ storedArchive.kind \in {"null", "object"}
  /\ loadArchive(FreshApp(storage)).archivedTodos = archivedTodos

\* the last item of a day was removed while another day keeps its item
C34_Witness ==
  /\ lastOp = "removeArchivedTodo"
  /\ storedArchive.kind = "object"
  /\ \E d \in 1..MaxDays :
       /\ DOMAIN archivedTodos = {d}
       /\ d # today

\* an item was removed from a day that keeps another item
C34_WitnessKept ==
  /\ lastOp = "removeArchivedTodo"
  /\ today \in DOMAIN archivedTodos
  /\ Len(archivedTodos[today]) > 0

\* the archive was emptied by removals
C34_WitnessEmptied ==
  /\ lastOp = "removeArchivedTodo"
  /\ storedArchive.kind = "object"
  /\ DOMAIN archivedTodos = {}

====
